---- MODULE Spec2Model ----
(***************************************************************************)
(* Kisan-DePIN: the zero-knowledge compliance statement and its proof      *)
(* lifecycle.                                                              *)
(*                                                                         *)
(*   - zk-proofs/verify_compliance.circom : the statement circuit          *)
(*   - zk-proofs/setup_and_prove.sh       : compile, trusted setup,        *)
(*                                          prove, verify, export          *)
(*   - zk-proofs/generate_mock_proof.js   : the demo fallback prover       *)
(*   - contracts (Anchor program)         : verify_and_mint and the        *)
(*                                          ProofRecord replay ledger      *)
(*                                                                         *)
(* Strings are sequences of one-character strings, so that joining and     *)
(* parsing are computed and not assumed.  Field elements are integers      *)
(* modulo FieldModulus.  The two hash functions are uninterpreted and      *)
(* injective: a digest is the pair of the function's name and its          *)
(* preimage.                                                               *)
(***************************************************************************)
EXTENDS Integers, Sequences, FiniteSets, TLC

\* ------------------------------------------------------------------------
\* Bounds of the model
\* ------------------------------------------------------------------------

\* Order of the scalar field the circuit is compiled for.  The circuit only
\* adds and subtracts constants below 2^23, so any modulus far above 2^23
\* shows the same wrap-around as the 254-bit order of bn128.
FieldModulus == 1000000007

\* Number of times setup_and_prove.sh is run.
MaxRuns == 2

\* Number of farmers submitting verify_and_mint transactions.
NumFarmers == 2

\* ------------------------------------------------------------------------
\* Strings and numbers
\* ------------------------------------------------------------------------

Digits == <<"0", "1", "2", "3", "4", "5", "6", "7", "8", "9">>

IsDigit(c) == \E d \in 1..10 : Digits[d] = c

DigitVal(c) == (CHOOSE d \in 1..10 : Digits[d] = c) - 1

RECURSIVE NatToString(_)
NatToString(n) ==
    IF n < 10 THEN <<Digits[n + 1]>>
    ELSE NatToString(n \div 10) \o <<Digits[(n % 10) + 1]>>

\* String(n) of an integer, as Array.prototype.join applies it to a number.
NumberToString(n) ==
    IF n < 0 THEN <<"-">> \o NatToString(0 - n) ELSE NatToString(n)

\* [a, b, c, d, e].join("|")
JoinBar(parts) ==
    parts[1] \o <<"|">> \o parts[2] \o <<"|">> \o parts[3] \o <<"|">>
        \o parts[4] \o <<"|">> \o parts[5]

\* A decimal numeral without sign.
IsNumeral(s) == Len(s) > 0 /\ \A i \in 1..Len(s) : IsDigit(s[i])

RECURSIVE ParseNat(_)
ParseNat(s) ==
    IF Len(s) = 0 THEN 0
    ELSE 10 * ParseNat(SubSeq(s, 1, Len(s) - 1)) + DigitVal(s[Len(s)])

\* ------------------------------------------------------------------------
\* Field arithmetic and the two hashes
\* ------------------------------------------------------------------------

\* A signal given as a number (negative numbers wrap to p - |x|).
ToField(n) == n % FieldModulus

\* A signal given as a decimal string.
StringToField(s) == ParseNat(s) % FieldModulus

FAdd(a, b) == (a + b) % FieldModulus

FSub(a, b) == ((a - b) + FieldModulus) % FieldModulus

RECURSIVE Pow2(_)
Pow2(n) == IF n = 0 THEN 1 ELSE 2 * Pow2(n - 1)

Poseidon(inputs) == [hash |-> "poseidon", preimage |-> inputs]

Sha256(message) == [hash |-> "sha256", preimage |-> message]

\* ------------------------------------------------------------------------
\* The statement circuit (verify_compliance.circom)
\* ------------------------------------------------------------------------

LatOffset == 900000

LngOffset == 1800000

\* Fault: the comparator's bound one too small.
LatBoundOffByOne == LatOffset + LatOffset
LatBound == 1800001

LngBound == 3600001

LatBits == 21

\* Fault: the longitude comparator declared as narrow as the latitude's.
LngBitsTooFew == LatBits
LngBits == 22

\* circomlib Num2Bits(n): in === sum of n boolean signals out[i] * 2^i.
\* The constraints have a solution exactly when the field element is
\* below 2^n.
Num2Bits(n, in) == in < Pow2(n)

\* circomlib LessThan(n): n2b = Num2Bits(n+1); n2b.in <== in[0] + (1<<n) - in[1];
\* out <== 1 - n2b.out[n].  The subtraction is the field's.
LessThanIn(n, a, b) == ((a + Pow2(n)) + (FieldModulus - b)) % FieldModulus

LessThanSolvable(n, a, b) == Num2Bits(n + 1, LessThanIn(n, a, b))

LessThanOut(n, a, b) == 1 - ((LessThanIn(n, a, b) \div Pow2(n)) % 2)

\* The signals of the circuit as the witness calculator reads them from
\* input.json.
Signals(in) ==
    [complianceStatusHash   |-> StringToField(in.complianceStatusHash),
     gpsLatitude            |-> ToField(in.gpsLatitude),
     gpsLongitude           |-> ToField(in.gpsLongitude),
     farmerWalletHash       |-> StringToField(in.farmerWalletHash),
     nonce                  |-> StringToField(in.nonce),
     expectedComplianceHash |-> StringToField(in.expectedComplianceHash)]

\* The witness calculator takes numerals only.
InputReadable(in) ==
    /\ IsNumeral(in.complianceStatusHash)
    /\ IsNumeral(in.farmerWalletHash)
    /\ IsNumeral(in.nonce)
    /\ IsNumeral(in.expectedComplianceHash)

\* Fault: the status constraint left out.
StatusCheckOmitted(sig) == sig.complianceStatusHash = sig.complianceStatusHash
\* Step 1: statusCheck <== complianceStatusHash - expectedComplianceHash;
\* statusCheck === 0.
StatusCheck(sig) ==
    FSub(sig.complianceStatusHash, sig.expectedComplianceHash) = 0

ShiftedLat(sig) == FAdd(sig.gpsLatitude, LatOffset)

ShiftedLng(sig) == FAdd(sig.gpsLongitude, LngOffset)

\* Step 2: latCheck = LessThan(21); latCheck.out === 1.
LatCheck(sig) ==
    /\ LessThanSolvable(LatBits, ShiftedLat(sig), LatBound)
    /\ LessThanOut(LatBits, ShiftedLat(sig), LatBound) = 1

\* Step 2: lngCheck = LessThan(22); lngCheck.out === 1.
LngCheck(sig) ==
    /\ LessThanSolvable(LngBits, ShiftedLng(sig), LngBound)
    /\ LessThanOut(LngBits, ShiftedLng(sig), LngBound) = 1

\* Fault: latitude and longitude wired to the hasher in the other order.
ComplianceCommitmentSwapped(sig) ==
    Poseidon(<<sig.complianceStatusHash, sig.gpsLongitude, sig.gpsLatitude,
               sig.farmerWalletHash, sig.nonce>>)

\* Fault: the nonce not wired to the hasher.
ComplianceCommitmentWithoutNonce(sig) ==
    Poseidon(<<sig.complianceStatusHash, sig.gpsLatitude, sig.gpsLongitude,
               sig.farmerWalletHash, 0>>)
\* Step 3: hasher = Poseidon(5); complianceCommitment <== hasher.out.
ComplianceCommitment(sig) ==
    Poseidon(<<sig.complianceStatusHash, sig.gpsLatitude, sig.gpsLongitude,
               sig.farmerWalletHash, sig.nonce>>)

\* All constraints of VerifyCompliance hold for the signals.
VerifyCompliance(sig) == StatusCheck(sig) /\ LatCheck(sig) /\ LngCheck(sig)

\* ------------------------------------------------------------------------
\* Groth16 as snarkjs provides it: a proof is bound to the key of the setup
\* it was made under and to the public signals of its witness.
\* ------------------------------------------------------------------------

NoFile == [kind |-> "none"]

\* snarkjs groth16 setup + zkey contribute + zkey export verificationkey:
\* the contribution mixes fresh randomness, so every setup has its own key.
Groth16Setup(k) ==
    [zkey |-> [kind |-> "zkey", key |-> k],
     vk   |-> [kind |-> "groth16", key |-> k]]

\* Fault: the proof's randomness mixed into the commitment it is bound to.
Groth16ProveSaltedCommitment(zk, public, r) ==
    [kind |-> "groth16", key |-> zk.key,
     public |-> <<[hash |-> public[1].hash,
                   preimage |-> Append(public[1].preimage, r)], public[2]>>,
     rand |-> r]
\* snarkjs groth16 prove <zkey> <witness> <proof> <public>: every proof is
\* blinded with randomness r of its own.
Groth16Prove(zk, public, r) ==
    [kind |-> "groth16", key |-> zk.key, public |-> public, rand |-> r]

\* Fault: a verifier that does not use the public signals.
Groth16VerifyIgnoresPublic(vk, public, proof) ==
    /\ vk.kind = "groth16"
    /\ proof.kind = "groth16"
    /\ proof.key = vk.key

\* Fault: a verifier that does not use the verification key.
Groth16VerifyIgnoresKey(vk, public, proof) ==
    /\ vk.kind = "groth16"
    /\ proof.kind = "groth16"
    /\ proof.public = public
\* snarkjs groth16 verify <verification_key> <public> <proof>
Groth16Verify(vk, public, proof) ==
    /\ vk.kind = "groth16"
    /\ proof.kind = "groth16"
    /\ proof.key = vk.key
    /\ proof.public = public

\* ------------------------------------------------------------------------
\* The mock prover (generate_mock_proof.js)
\* ------------------------------------------------------------------------

\* statusMatch = input.complianceStatusHash === input.expectedComplianceHash
StatusMatch(in) == in.complianceStatusHash = in.expectedComplianceHash

\* commitmentInput = [status, lat, lng, wallet, nonce].join("|")
CommitmentInput(in) ==
    JoinBar(<<in.complianceStatusHash, NumberToString(in.gpsLatitude),
              NumberToString(in.gpsLongitude), in.farmerWalletHash, in.nonce>>)

\* commitment = sha256(commitmentInput)
MockCommitment(in) == Sha256(CommitmentInput(in))

\* mockProof: pi_a, pi_b, pi_c of crypto.randomBytes
MockProof(r) == [kind |-> "mock", rand |-> r]

\* verificationKey: vk_alpha_1 ... IC of crypto.randomBytes
MockVerificationKey(r) == [kind |-> "mockvk", rand |-> r]

\* Step 4: recomputedCommitment === commitment, both from commitmentInput
MockVerified(in, c) == Sha256(CommitmentInput(in)) = c

\* ------------------------------------------------------------------------
\* Inputs of the model
\* ------------------------------------------------------------------------

HashVals == {<<"7">>, <<"8">>}

\* The hash of "COMPLIANT" every verifier knows.
ExpectedHash == <<"7">>

\* New Delhi; the corners of the valid range; latitude and longitude one
\* step below the range; latitude 91 degrees.
CoordVals ==
    {<<286139, 772090>>, <<900000, 1800000>>, <<0 - 900000, 0 - 1800000>>,
     <<910000, 772090>>, <<0 - 900001, 772090>>, <<286139, 0 - 1800001>>}

\* Wallet hash and nonce.
IdentityVals == {<<<<"5">>, <<"1">>>>, <<<<"5", "|", "1">>, <<"1">>>>,
                 <<<<"5">>, <<"1", "|", "1">>>>}

Inputs ==
    {[complianceStatusHash   |-> s,
      gpsLatitude            |-> c[1],
      gpsLongitude           |-> c[2],
      farmerWalletHash       |-> w[1],
      nonce                  |-> w[2],
      expectedComplianceHash |-> ExpectedHash] :
        s \in HashVals, c \in CoordVals, w \in IdentityVals}

NoInput == [kind |-> "none"]

NoArtifact == [kind |-> "none"]

\* ------------------------------------------------------------------------
\* State
\* ------------------------------------------------------------------------

VARIABLES
    run,          \* runs of setup_and_prove.sh started so far
    USE_MOCK,     \* circom was not found: the script falls back to the mock
    pc,           \* the step the script is at
    input,        \* input.json
    zkey,         \* build/verify_compliance.zkey
    vkFile,       \* build/verification_key.json
    proofFile,    \* build/proof.json
    publicFile,   \* build/public.json
    commitment,   \* the mock script's constant `commitment`
    verified,     \* the result of step 4: "none", "valid", "invalid"
    error,        \* why the script stopped
    produced,     \* what the prover of this run wrote, with its input
    prev,         \* what the prover of an earlier run wrote
    stdout,       \* what the script has echoed in this run, in order
    initialized,  \* the ProgramState PDA exists
    programVk,    \* the verification key the program checks against
    proofRecords, \* the commitments that have a ProofRecord PDA
    minted,       \* $GREEN minted so far
    farmerPc,     \* each farmer: "idle", "proved", "done"
    submission,   \* each farmer's proof, commitment and public input
    outcome,      \* each farmer's transaction result
    redeemLog,    \* the redemptions the ledger was asked for, in order
    localResult,  \* each farmer's own verification of what the farmer holds
    geoUseMock,   \* mock-data.ts USE_MOCK, a constant of the build
    geoAvailable, \* "geolocation" in navigator
    permission,   \* the browser's geolocation permission of the page
    geoPc,        \* where a call of getCurrentPosition is
    geoPromise,   \* the promise getCurrentPosition returned
    geoValue,     \* the value the promise was resolved with
    geoWarned,    \* what console.warn was called with during the call
    geoCalls,     \* calls of getCurrentPosition made so far
    captureData,  \* Home: the capture handed up by FieldCapture, or null
    isCapturing,  \* FieldCapture: a capture is being processed
    gpsStatus,    \* FieldCapture: the status line under the button
    capturePc,    \* where the running handleCapture is
    onCaptureCalls, \* calls of onCapture made by the last handleCapture
    result,       \* CapturePreview: the compliance result shown, or null
    isSubmitting, \* CapturePreview: a submission is being analysed
    inFlight,     \* the handleSubmit that is waiting, or none
    mounted,      \* GreenBalance is on the page
    wallet,       \* useWallet(): publicKey, "none" when not connected
    walletChanges, \* connects, disconnects and account switches so far
    lamports,     \* the cluster: the balance of each account
    balanceFor,   \* the publicKey the SOL effect last ran with
    listener,     \* the account the onAccountChange listener is on
    pendingFetches, \* calls of getBalance that have not returned
    solBalance,   \* GreenBalance: the SOL balance stored, or null
    greenFor,     \* the value of connected the $GREEN effect last ran with
    greenBalance, \* GreenBalance: the $GREEN balance, in hundredths
    animatedFor,  \* the greenBalance the counter effect last ran with
    timers,       \* the intervals of the counter effect that are running
    timerSeq,     \* intervals created so far
    displayedGreen \* GreenBalance: the number the counter shows

scriptVars == <<run, USE_MOCK, pc, input, zkey, vkFile, proofFile, publicFile,
                commitment, verified, error, produced, prev, stdout>>

chainVars == <<initialized, programVk, proofRecords, minted, farmerPc,
               submission, outcome, redeemLog, localResult>>

pageVars == <<captureData, isCapturing, gpsStatus, capturePc, onCaptureCalls,
              result, isSubmitting, inFlight>>

balanceVars == <<mounted, wallet, walletChanges, lamports, balanceFor,
                 listener, pendingFetches, solBalance, greenFor,
                 greenBalance, animatedFor, timers, timerSeq,
                 displayedGreen>>

frontendVars == <<geoUseMock, geoAvailable, permission, geoPc, geoPromise,
                  geoValue, geoWarned, geoCalls, pageVars, balanceVars>>

vars == <<scriptVars, chainVars, frontendVars>>

InitScript ==
    /\ run = 0
    /\ USE_MOCK = FALSE
    /\ pc = "idle"
    /\ input = NoInput
    /\ zkey = NoFile
    /\ vkFile = NoFile
    /\ proofFile = NoFile
    /\ publicFile = NoFile
    /\ commitment = NoFile
    /\ verified = "none"
    /\ error = "none"
    /\ produced = NoArtifact
    /\ prev = NoArtifact
    /\ stdout = <<>>

\* ------------------------------------------------------------------------
\* setup_and_prove.sh
\* ------------------------------------------------------------------------

\* Step 0 and the start of a run: whether circom is installed decides
\* USE_MOCK.  The files of build/ stay as the last run left them.
StartScript(in, mock) ==
    /\ pc \in {"idle", "done", "failed"}
    /\ run < MaxRuns
    /\ run' = run + 1
    /\ input' = in
    /\ USE_MOCK' = mock
    /\ pc' = IF mock THEN "mock" ELSE "compile"
    /\ verified' = "none"
    /\ error' = "none"
    /\ commitment' = NoFile
    /\ prev' = IF produced # NoArtifact THEN produced ELSE prev
    /\ produced' = NoArtifact
    /\ stdout' = <<>>
    /\ UNCHANGED <<zkey, vkFile, proofFile, publicFile, chainVars,
                   frontendVars>>

\* Step 1: circom verify_compliance.circom --r1cs --wasm --sym
Compile ==
    /\ pc = "compile"
    /\ pc' = "setup"
    /\ stdout' = Append(stdout, "Step 1")
    /\ UNCHANGED <<run, USE_MOCK, input, zkey, vkFile, proofFile, publicFile,
                   commitment, verified, error, produced, prev, chainVars,
                   frontendVars>>

\* Step 2: powers of tau, groth16 setup, zkey contribute, export of the
\* verification key.
TrustedSetup ==
    /\ pc = "setup"
    /\ zkey' = Groth16Setup(run).zkey
    /\ vkFile' = Groth16Setup(run).vk
    /\ pc' = "prove"
    /\ stdout' = Append(stdout, "Step 2")
    /\ UNCHANGED <<run, USE_MOCK, input, proofFile, publicFile, commitment,
                   verified, error, produced, prev, chainVars,
                   frontendVars>>

\* Fault: the latitude declared public as well.
PublicSignalsWithLatitude(sig) ==
    <<ComplianceCommitment(sig), NatToString(sig.expectedComplianceHash),
      NatToString(sig.gpsLatitude)>>
\* public.json: the output signal, then the public input, as snarkjs
\* writes them (field elements in decimal).
PublicSignals(sig) ==
    <<ComplianceCommitment(sig), NatToString(sig.expectedComplianceHash)>>

\* generate_witness.js followed by snarkjs groth16 prove: the witness
\* calculator stops on an unreadable input and on a failed constraint.
CircuitProve(in, zk, r) ==
    IF ~InputReadable(in)
    THEN [status |-> "InputError"]
    ELSE IF ~VerifyCompliance(Signals(in))
    THEN [status |-> "ConstraintViolation"]
    ELSE LET public == PublicSignals(Signals(in))
         IN  [status |-> "ok",
              public |-> public,
              proof  |-> Groth16Prove(zk, public, r)]

\* Step 3: under set -e a failing command ends the script.
GenerateProof ==
    /\ pc = "prove"
    /\ LET r == CircuitProve(input, zkey, run)
       IN  IF r.status = "ok"
           THEN /\ proofFile' = r.proof
                /\ publicFile' = r.public
                /\ produced' = [kind |-> "artifact", mock |-> FALSE,
                                input |-> input, proof |-> r.proof,
                                public |-> r.public, vk |-> vkFile]
                /\ pc' = "verify"
                /\ error' = error
           ELSE /\ pc' = "failed"
                /\ error' = r.status
                /\ UNCHANGED <<proofFile, publicFile, produced>>
    /\ stdout' = Append(stdout, "Step 3")
    /\ UNCHANGED <<run, USE_MOCK, input, zkey, vkFile, commitment, verified,
                   prev, chainVars,
                   frontendVars>>

\* Fault: the script without set -e goes on after a failed verification.
VerifyProofWithoutErrexit ==
    /\ pc = "verify"
    /\ LET ok == Groth16Verify(vkFile, publicFile, proofFile)
       IN  /\ verified' = IF ok THEN "valid" ELSE "invalid"
           /\ pc' = "export"
           /\ error' = IF ok THEN error ELSE "InvalidProof"
    /\ stdout' = stdout \o <<"Step 4", "verified">>
    /\ UNCHANGED <<run, USE_MOCK, input, zkey, vkFile, proofFile, publicFile,
                   commitment, produced, prev, chainVars, frontendVars>>
\* Step 4: snarkjs groth16 verify verification_key.json public.json proof.json
VerifyProof ==
    /\ pc = "verify"
    /\ LET ok == Groth16Verify(vkFile, publicFile, proofFile)
       IN  /\ verified' = IF ok THEN "valid" ELSE "invalid"
           /\ pc' = IF ok THEN "export" ELSE "failed"
           /\ error' = IF ok THEN error ELSE "InvalidProof"
    /\ stdout' = IF Groth16Verify(vkFile, publicFile, proofFile)
                 THEN stdout \o <<"Step 4", "verified">>
                 ELSE Append(stdout, "Step 4")
    /\ UNCHANGED <<run, USE_MOCK, input, zkey, vkFile, proofFile, publicFile,
                   commitment, produced, prev, chainVars,
                   frontendVars>>

\* Step 5: snarkjs zkey export solidityverifier
ExportVerifier ==
    /\ pc = "export"
    /\ pc' = "done"
    /\ stdout' = Append(stdout, "Step 5")
    /\ UNCHANGED <<run, USE_MOCK, input, zkey, vkFile, proofFile, publicFile,
                   commitment, verified, error, produced, prev, chainVars,
                   frontendVars>>

\* Fault: the files of build/ are written before the status is looked at.
MockProveWritesFirst ==
    /\ pc = "mock"
    /\ commitment' = MockCommitment(input)
    /\ proofFile' = MockProof(run)
    /\ publicFile' = <<MockCommitment(input), input.expectedComplianceHash>>
    /\ vkFile' = MockVerificationKey(run)
    /\ IF StatusMatch(input)
       THEN /\ produced' = [kind |-> "artifact", mock |-> TRUE,
                            input |-> input, proof |-> MockProof(run),
                            public |-> <<MockCommitment(input),
                                         input.expectedComplianceHash>>,
                            vk |-> MockVerificationKey(run)]
            /\ pc' = "mock_verify"
            /\ error' = error
       ELSE /\ pc' = "failed"
            /\ error' = "ConstraintViolation"
            /\ produced' = produced
    /\ stdout' = Append(stdout, "Mock Mode")
    /\ UNCHANGED <<run, USE_MOCK, input, zkey, verified, prev, chainVars,
                   frontendVars>>
\* generate_mock_proof.js, steps 1 to 3: process.exit(1) on a status
\* mismatch, else the commitment and the three files of build/.
MockProve ==
    /\ pc = "mock"
    /\ IF StatusMatch(input)
       THEN /\ commitment' = MockCommitment(input)
            /\ proofFile' = MockProof(run)
            /\ publicFile' = <<MockCommitment(input),
                               input.expectedComplianceHash>>
            /\ vkFile' = MockVerificationKey(run)
            /\ produced' = [kind |-> "artifact", mock |-> TRUE,
                            input |-> input, proof |-> MockProof(run),
                            public |-> <<MockCommitment(input),
                                         input.expectedComplianceHash>>,
                            vk |-> MockVerificationKey(run)]
            /\ pc' = "mock_verify"
            /\ error' = error
       ELSE /\ pc' = "failed"
            /\ error' = "ConstraintViolation"
            /\ UNCHANGED <<commitment, proofFile, publicFile, vkFile,
                           produced>>
    /\ stdout' = Append(stdout, "Mock Mode")
    /\ UNCHANGED <<run, USE_MOCK, input, zkey, verified, prev, chainVars,
                   frontendVars>>

\* generate_mock_proof.js, step 4.
MockVerify ==
    /\ pc = "mock_verify"
    /\ verified' = IF MockVerified(input, commitment) THEN "valid"
                   ELSE "invalid"
    /\ pc' = "done"
    /\ stdout' = Append(stdout, "mock verified")
    /\ UNCHANGED <<run, USE_MOCK, input, zkey, vkFile, proofFile, publicFile,
                   commitment, error, produced, prev, chainVars,
                   frontendVars>>

\* ------------------------------------------------------------------------
\* What is presented to the verifier.  Between proof generation and
\* verification the artifacts are files anyone holding them can replace.
\* ------------------------------------------------------------------------

\* The public signals with the public input changed.
MutatedPublic(h) == <<publicFile[1], h>>

\* Another commitment, or a mutated public input, takes the place of the
\* public signals.
SubstitutePublic(p) ==
    /\ pc \in {"verify", "mock_verify"}
    /\ p # publicFile
    /\ publicFile' = p
    /\ stdout' = stdout
    /\ UNCHANGED <<run, USE_MOCK, pc, input, zkey, vkFile, proofFile,
                   commitment, verified, error, produced, prev, chainVars,
                   frontendVars>>

\* The verification key of an earlier run takes the place of this run's.
SubstituteKey ==
    /\ pc \in {"verify", "mock_verify"}
    /\ prev # NoArtifact
    /\ prev.vk # vkFile
    /\ vkFile' = prev.vk
    /\ stdout' = stdout
    /\ UNCHANGED <<run, USE_MOCK, pc, input, zkey, proofFile, publicFile,
                   commitment, verified, error, produced, prev, chainVars,
                   frontendVars>>

\* The proof of an earlier run takes the place of this run's.
SubstituteProof ==
    /\ pc \in {"verify", "mock_verify"}
    /\ prev # NoArtifact
    /\ prev.proof # proofFile
    /\ proofFile' = prev.proof
    /\ stdout' = stdout
    /\ UNCHANGED <<run, USE_MOCK, pc, input, zkey, vkFile, publicFile,
                   commitment, verified, error, produced, prev, chainVars,
                   frontendVars>>

PresentablePublics ==
    IF pc \in {"verify", "mock_verify"}
    THEN {MutatedPublic(h) : h \in HashVals}
             \cup (IF prev # NoArtifact THEN {prev.public} ELSE {})
    ELSE {}

\* ------------------------------------------------------------------------
\* The geolocation wrapper (geolocation.ts) and the browser's Geolocation
\* API behind it.  Degrees are written times 10000, metres times 10.
\* ------------------------------------------------------------------------

MaxCalls == 3

\* MOCK_GPS: New Delhi, accuracy 12.5 m.
MOCK_GPS == [latitude |-> 286139, longitude |-> 772090, accuracy |-> 125]

\* What the device may report: Mumbai, Sydney, Null Island, the north
\* pole and a point on the antimeridian.
DevicePositions ==
    {[latitude |-> 190760, longitude |-> 728777, accuracy |-> 50],
     [latitude |-> 0 - 338688, longitude |-> 1512093, accuracy |-> 200],
     [latitude |-> 0, longitude |-> 0, accuracy |-> 10000],
     [latitude |-> 900000, longitude |-> 0, accuracy |-> 650],
     [latitude |-> 0 - 168000, longitude |-> 0 - 1800000, accuracy |-> 80]}

NoPosition == [kind |-> "none"]

\* GeolocationPositionError.code
GeoErrors == {"PERMISSION_DENIED", "POSITION_UNAVAILABLE", "TIMEOUT"}

\* Wallet switches and connects a run of the page goes through.
MaxWalletChanges == 3

\* CaptureData | null, ComplianceResult | null, and no submission waiting.
NoCapture == [kind |-> "null"]
NoResult == [kind |-> "null"]
NoSubmission == [kind |-> "none"]

\* number | null
NoBalance == [kind |-> "null"]

\* The accounts a wallet may hand to the page.
Keys == {"walletA", "walletB"}

\* LAMPORTS_PER_SOL of @solana/web3.js.
LAMPORTS_PER_SOL == 1000000000

\* MOCK_GREEN_BALANCE = 42.0, in hundredths of a token.
MOCK_GREEN_BALANCE == 4200

\* Home, FieldCapture and CapturePreview as they mount: useState(null),
\* useState(false), useState("").
InitPage ==
    /\ captureData = NoCapture
    /\ isCapturing = FALSE
    /\ gpsStatus = ""
    /\ capturePc = "idle"
    /\ onCaptureCalls = 0
    /\ result = NoResult
    /\ isSubmitting = FALSE
    /\ inFlight = NoSubmission

\* GreenBalance as it mounts, before its effects have run, with no wallet
\* connected: useState(null), useState(0), useState(0).
InitBalance ==
    /\ mounted = TRUE
    /\ wallet = "none"
    /\ walletChanges = 0
    /\ lamports = [k \in Keys |-> LAMPORTS_PER_SOL]
    /\ balanceFor = "unrun"
    /\ listener = "none"
    /\ pendingFetches = {}
    /\ solBalance = NoBalance
    /\ greenFor = "unrun"
    /\ greenBalance = 0
    /\ animatedFor = 0 - 1
    /\ timers = {}
    /\ timerSeq = 0
    /\ displayedGreen = 0

\* The frontend before any call, as this repository builds it:
\* USE_MOCK = true.
InitFrontend ==
    /\ geoUseMock = TRUE
    /\ geoAvailable = TRUE
    /\ permission = "prompt"
    /\ geoPc = "idle"
    /\ geoPromise = "none"
    /\ geoValue = NoPosition
    /\ geoWarned = "none"
    /\ geoCalls = 0
    /\ InitPage
    /\ InitBalance

\* The frontend before any call, for either value of USE_MOCK, in a
\* browser with or without the Geolocation API, whatever the user decided
\* about the permission earlier.
InitGeoFrontend ==
    /\ geoUseMock \in BOOLEAN
    /\ geoAvailable \in BOOLEAN
    /\ permission \in {"prompt", "granted", "denied"}
    /\ geoPc = "idle"
    /\ geoPromise = "none"
    /\ geoValue = NoPosition
    /\ geoWarned = "none"
    /\ geoCalls = 0
    /\ InitPage
    /\ InitBalance

\* getCurrentPosition() up to its first await or return.
CallGetCurrentPosition ==
    /\ geoPc = "idle"
    /\ geoCalls < MaxCalls
    /\ geoCalls' = geoCalls + 1
    /\ IF geoUseMock
       THEN /\ geoPc' = "delay"
            /\ geoPromise' = "pending"
            /\ geoValue' = NoPosition
            /\ geoWarned' = "none"
       ELSE IF ~geoAvailable
       THEN /\ geoPc' = "settled"
            /\ geoPromise' = "fulfilled"
            /\ geoValue' = MOCK_GPS
            /\ geoWarned' = "API_UNAVAILABLE"
       ELSE /\ geoPc' = "requested"
            /\ geoPromise' = "pending"
            /\ geoValue' = NoPosition
            /\ geoWarned' = "none"

\* A call of getCurrentPosition on its own.
GetCurrentPosition ==
    /\ CallGetCurrentPosition
    /\ UNCHANGED <<geoUseMock, geoAvailable, permission, scriptVars, chainVars,
                   pageVars, balanceVars>>

\* setTimeout(r, 800) fires: the function returns MOCK_GPS.
DelayElapsed ==
    /\ geoPc = "delay"
    /\ geoPc' = "settled"
    /\ geoPromise' = "fulfilled"
    /\ geoValue' = MOCK_GPS
    /\ UNCHANGED <<geoUseMock, geoAvailable, permission, geoWarned, geoCalls,
                   scriptVars, chainVars,
                   pageVars, balanceVars>>

\* The user answers the browser's permission prompt.  The timeout of the
\* request does not run while the prompt is open.
AnswerPrompt(answer) ==
    /\ geoPc = "requested"
    /\ permission = "prompt"
    /\ permission' = answer
    /\ UNCHANGED <<geoUseMock, geoAvailable, geoPc, geoPromise, geoValue,
                   geoWarned, geoCalls, scriptVars, chainVars,
                   pageVars, balanceVars>>

\* The success callback: resolve with the coordinates of the position.
SuccessCallback(pos) ==
    /\ geoPc = "requested"
    /\ permission = "granted"
    /\ geoPc' = "settled"
    /\ geoPromise' = "fulfilled"
    /\ geoValue' = [latitude  |-> pos.latitude,
                    longitude |-> pos.longitude,
                    accuracy  |-> pos.accuracy]
    /\ UNCHANGED <<geoUseMock, geoAvailable, permission, geoWarned, geoCalls,
                   scriptVars, chainVars,
                   pageVars, balanceVars>>

\* Fault: the error handed on to the caller.
OnGeoErrorRejecting(err) ==
    [promise |-> "rejected", value |-> NoPosition, warned |-> err]
\* The error callback: console.warn, then resolve with MOCK_GPS.
OnGeoError(err) ==
    [promise |-> "fulfilled", value |-> MOCK_GPS, warned |-> err]

\* The browser reports an error: the permission is denied, or it is
\* granted and the position is unavailable or did not come within 5000 ms.
ErrorCallback(err) ==
    /\ geoPc = "requested"
    /\ IF err = "PERMISSION_DENIED" THEN permission = "denied"
       ELSE permission = "granted"
    /\ geoPc' = "settled"
    /\ geoPromise' = OnGeoError(err).promise
    /\ geoValue' = OnGeoError(err).value
    /\ geoWarned' = OnGeoError(err).warned
    /\ UNCHANGED <<geoUseMock, geoAvailable, permission, geoCalls,
                   scriptVars, chainVars,
                   pageVars, balanceVars>>

\* The caller has the position and may ask again.
Returned ==
    /\ geoPc = "settled"
    /\ geoPc' = "idle"
    /\ UNCHANGED <<geoUseMock, geoAvailable, permission, geoPromise,
                   geoValue, geoWarned, geoCalls, scriptVars, chainVars,
                   pageVars, balanceVars>>

\* The browser, once the permission is decided, ends the request.
BrowserResponds ==
    \/ \E pos \in DevicePositions : SuccessCallback(pos)
    \/ \E err \in GeoErrors : ErrorCallback(err)

NextGeo ==
    \/ GetCurrentPosition
    \/ DelayElapsed
    \/ \E answer \in {"granted", "denied"} : AnswerPrompt(answer)
    \/ \E pos \in DevicePositions : SuccessCallback(pos)
    \/ \E err \in GeoErrors : ErrorCallback(err)
    \/ Returned

\* ------------------------------------------------------------------------
\* The page (page.tsx): Home holds captureData, FieldCapture.handleCapture
\* produces it, CapturePreview submits it and shows the result.  A capture
\* is named by the order in which it was taken.  The fields `analysis` and
\* `of` of a result, and `of` of a submission, are not state of the page:
\* they record what the backend analysis returned and which capture the
\* submission was made for.
\* ------------------------------------------------------------------------

\* e.target.files?.[0]: nothing selected, or a photo.
Files == {"none", "photo"}

\* MOCK_COMPLIANCE_RESULT and MOCK_VIOLATION_RESULT, confidence in percent.
MOCK_COMPLIANCE_RESULT ==
    [status |-> "COMPLIANT", confidence |-> 94, thermal_anomaly |-> FALSE]

MOCK_VIOLATION_RESULT ==
    [status |-> "VIOLATION", confidence |-> 88, thermal_anomaly |-> TRUE]

\* What POST /api/v1/analyze answers when it answers with a result.
BackendResults == {MOCK_COMPLIANCE_RESULT, MOCK_VIOLATION_RESULT}

\* setResult(json), with the record of where json came from.
Shown(json, analysis, of) ==
    [status          |-> json.status,
     confidence      |-> json.confidence,
     thermal_anomaly |-> json.thermal_anomaly,
     analysis        |-> analysis,
     of              |-> of]

\* Fault: no finally block, setIsCapturing(false) in the catch block only.
HandleCaptureEndWithoutFinally(promise) ==
    [gpsStatus   |-> IF promise = "fulfilled" THEN "coordinates"
                     ELSE "unavailable",
     delivered   |-> promise = "fulfilled",
     isCapturing |-> promise = "fulfilled"]
\* handleCapture after `await getCurrentPosition()`: the try block when the
\* promise is fulfilled, the catch block when it is rejected, and finally.
HandleCaptureEnd(promise) ==
    [gpsStatus   |-> IF promise = "fulfilled" THEN "coordinates"
                     ELSE "unavailable",
     delivered   |-> promise = "fulfilled",
     isCapturing |-> FALSE]

\* The user picks a file, or closes the picker: handleCapture up to its
\* await.  The button that opens the picker is disabled while isCapturing.
HandleCapture(file) ==
    /\ capturePc = "idle"
    /\ ~isCapturing
    /\ IF file = "none"
       THEN UNCHANGED vars
       ELSE /\ CallGetCurrentPosition
            /\ isCapturing' = TRUE
            /\ gpsStatus' = "acquiring"
            /\ capturePc' = "awaiting"
            /\ onCaptureCalls' = 0
            /\ UNCHANGED <<geoUseMock, geoAvailable, permission, captureData,
                           result, isSubmitting, inFlight, balanceVars,
                           scriptVars, chainVars>>

\* The promise of getCurrentPosition has settled: handleCapture runs to
\* its end.  onCapture is Home's setCaptureData.
CaptureSettled ==
    /\ capturePc = "awaiting"
    /\ geoPc = "settled"
    /\ geoPc' = "idle"
    /\ capturePc' = "idle"
    /\ gpsStatus' = HandleCaptureEnd(geoPromise).gpsStatus
    /\ IF HandleCaptureEnd(geoPromise).delivered
       THEN /\ captureData' = [image     |-> geoCalls,
                               gps       |-> geoValue,
                               timestamp |-> geoCalls]
            /\ onCaptureCalls' = onCaptureCalls + 1
       ELSE UNCHANGED <<captureData, onCaptureCalls>>
    /\ isCapturing' = HandleCaptureEnd(geoPromise).isCapturing
    /\ UNCHANGED <<geoUseMock, geoAvailable, permission, geoPromise,
                   geoValue, geoWarned, geoCalls, result, isSubmitting,
                   inFlight, balanceVars, scriptVars, chainVars>>

\* "Submit for Verification", shown while there is no result and disabled
\* while isSubmitting: handleSubmit up to its await, for the data of the
\* render the button was clicked in.
HandleSubmit ==
    /\ captureData # NoCapture
    /\ result = NoResult
    /\ ~isSubmitting
    /\ isSubmitting' = TRUE
    /\ inFlight' = [of |-> captureData.timestamp]
    /\ UNCHANGED <<captureData, isCapturing, gpsStatus, capturePc,
                   onCaptureCalls, result, geoUseMock, geoAvailable,
                   permission, geoPc, geoPromise, geoValue, geoWarned,
                   geoCalls, balanceVars, scriptVars, chainVars>>

\* The state of CapturePreview after handleSubmit has set a result.
EndSubmit(res) ==
    /\ result' = res
    /\ isSubmitting' = FALSE
    /\ inFlight' = NoSubmission
    /\ UNCHANGED <<captureData, isCapturing, gpsStatus, capturePc,
                   onCaptureCalls, geoUseMock, geoAvailable, permission,
                   geoPc, geoPromise, geoValue, geoWarned, geoCalls,
                   balanceVars, scriptVars, chainVars>>

\* USE_MOCK: after 2000 ms, setResult(MOCK_COMPLIANCE_RESULT).
MockAnalysisElapsed ==
    /\ inFlight # NoSubmission
    /\ geoUseMock
    /\ EndSubmit(Shown(MOCK_COMPLIANCE_RESULT, "none", inFlight.of))

\* The backend answers with the result of its analysis: setResult(json).
BackendResponds(json) ==
    /\ inFlight # NoSubmission
    /\ ~geoUseMock
    /\ EndSubmit(Shown(json, json.status, inFlight.of))

\* fetch or res.json() throws: "Fallback to mock on error".
BackendFails ==
    /\ inFlight # NoSubmission
    /\ ~geoUseMock
    /\ EndSubmit(Shown(MOCK_COMPLIANCE_RESULT, "failed", inFlight.of))

\* "New Capture", shown once there is a result: setResult(null), onReset().
\* Home renders no CapturePreview until the next capture.
NewCapture ==
    /\ captureData # NoCapture
    /\ result # NoResult
    /\ result' = NoResult
    /\ captureData' = NoCapture
    /\ UNCHANGED <<isCapturing, gpsStatus, capturePc, onCaptureCalls,
                   isSubmitting, inFlight, geoUseMock, geoAvailable,
                   permission, geoPc, geoPromise, geoValue, geoWarned,
                   geoCalls, balanceVars, scriptVars, chainVars>>

NextPage ==
    \/ \E file \in Files : HandleCapture(file)
    \/ DelayElapsed
    \/ \E answer \in {"granted", "denied"} : AnswerPrompt(answer)
    \/ \E pos \in DevicePositions : SuccessCallback(pos)
    \/ \E err \in GeoErrors : ErrorCallback(err)
    \/ CaptureSettled
    \/ HandleSubmit
    \/ MockAnalysisElapsed
    \/ \E json \in BackendResults : BackendResponds(json)
    \/ BackendFails
    \/ NewCapture

\* ------------------------------------------------------------------------
\* GreenBalance (GreenBalance.tsx) with the wallet adapter and the cluster
\* behind it.  $GREEN amounts are in hundredths of a token.  React runs the
\* effects of a render after the state change that caused it, as a step of
\* its own.  The field `of` of a stored balance and the fields of a pending
\* fetch are not state of the component: they record the account the
\* number was read from.
\* ------------------------------------------------------------------------

\* const steps = 30
AnimationSteps == 30

\* connected, as a dependency of the $GREEN effect
ConnectedAs(w) == IF w = "none" THEN "disconnected" ELSE "connected"

\* current.toFixed(1), parsed back: rounded to a tenth of a token.
ToFixed1(x) == ((x + 5) \div 10) * 10

\* Math.min
Min(a, b) == IF a < b THEN a ELSE b

\* clearInterval(timer)
ClearInterval(ts, id) == {t \in ts : t.id # id}

\* Fault: the counter effect returns no cleanup.
AnimationCleanupOmitted(ts, id) == ts
\* return () => clearInterval(timer), for the timer the last run of the
\* effect created.
AnimationCleanup(ts, id) == ClearInterval(ts, id)

\* setSolBalance(lamports / LAMPORTS_PER_SOL) with what was read for
\* account k.
Stored(l, k) == [sol |-> l \div LAMPORTS_PER_SOL, of |-> k]

\* The wallet adapter: the user connects account k.
Connect(k) ==
    /\ mounted
    /\ wallet = "none"
    /\ walletChanges < MaxWalletChanges
    /\ wallet' = k
    /\ walletChanges' = walletChanges + 1
    /\ UNCHANGED <<mounted, lamports, balanceFor, listener, pendingFetches,
                   solBalance, greenFor, greenBalance, animatedFor, timers,
                   timerSeq, displayedGreen, geoUseMock, geoAvailable,
                   permission, geoPc, geoPromise, geoValue, geoWarned,
                   geoCalls, pageVars, scriptVars, chainVars>>

\* The wallet adapter: the user disconnects.
Disconnect ==
    /\ mounted
    /\ wallet # "none"
    /\ walletChanges < MaxWalletChanges
    /\ wallet' = "none"
    /\ walletChanges' = walletChanges + 1
    /\ UNCHANGED <<mounted, lamports, balanceFor, listener, pendingFetches,
                   solBalance, greenFor, greenBalance, animatedFor, timers,
                   timerSeq, displayedGreen, geoUseMock, geoAvailable,
                   permission, geoPc, geoPromise, geoValue, geoWarned,
                   geoCalls, pageVars, scriptVars, chainVars>>

\* The wallet adapter: the user switches to account k while connected.
SwitchAccount(k) ==
    /\ mounted
    /\ wallet # "none"
    /\ k # wallet
    /\ walletChanges < MaxWalletChanges
    /\ wallet' = k
    /\ walletChanges' = walletChanges + 1
    /\ UNCHANGED <<mounted, lamports, balanceFor, listener, pendingFetches,
                   solBalance, greenFor, greenBalance, animatedFor, timers,
                   timerSeq, displayedGreen, geoUseMock, geoAvailable,
                   permission, geoPc, geoPromise, geoValue, geoWarned,
                   geoCalls, pageVars, scriptVars, chainVars>>

\* The SOL effect, when [connected, publicKey] changed: the cleanup of its
\* last run removes the listener; then setSolBalance(null) without a
\* wallet, else fetchBalance() is started and a listener is added.
BalanceEffect ==
    IF balanceFor = wallet
    THEN UNCHANGED <<balanceFor, listener, pendingFetches, solBalance>>
    ELSE /\ balanceFor' = wallet
         /\ listener' = wallet
         /\ IF wallet = "none"
            THEN /\ solBalance' = NoBalance
                 /\ UNCHANGED pendingFetches
            ELSE /\ pendingFetches' =
                        pendingFetches \cup
                            {[key |-> wallet, started |-> walletChanges]}
                 /\ UNCHANGED solBalance

\* The $GREEN effect, when [connected] changed.
GreenEffect ==
    IF greenFor = ConnectedAs(wallet)
    THEN UNCHANGED <<greenFor, greenBalance>>
    ELSE /\ greenFor' = ConnectedAs(wallet)
         /\ greenBalance' = IF wallet # "none" \/ geoUseMock
                            THEN MOCK_GREEN_BALANCE ELSE 0

\* The counter effect, when [greenBalance] changed: the cleanup of its last
\* run, then setDisplayedGreen(0) for a balance of 0 and a new interval
\* otherwise.
CounterEffect ==
    IF animatedFor = greenBalance
    THEN UNCHANGED <<animatedFor, timers, timerSeq, displayedGreen>>
    ELSE /\ animatedFor' = greenBalance
         /\ IF greenBalance = 0
            THEN /\ displayedGreen' = 0
                 /\ timers' = AnimationCleanup(timers, timerSeq)
                 /\ UNCHANGED timerSeq
            ELSE /\ timerSeq' = timerSeq + 1
                 /\ timers' =
                        AnimationCleanup(timers, timerSeq) \cup
                            {[id           |-> timerSeq + 1,
                              current      |-> 0,
                              step         |-> 0,
                              greenBalance |-> greenBalance]}
                 /\ UNCHANGED displayedGreen

\* React runs the effects whose dependencies changed, in the order the
\* component declares them, with the state of the render.
FlushEffects ==
    /\ mounted
    /\ \/ balanceFor # wallet
       \/ greenFor # ConnectedAs(wallet)
       \/ animatedFor # greenBalance
    /\ BalanceEffect
    /\ GreenEffect
    /\ CounterEffect
    /\ UNCHANGED <<mounted, wallet, walletChanges, lamports, geoUseMock,
                   geoAvailable, permission, geoPc, geoPromise, geoValue,
                   geoWarned, geoCalls, pageVars, scriptVars, chainVars>>

\* The interval of timer t fires.
Tick(t) ==
    /\ t \in timers
    /\ LET increment == t.greenBalance \div AnimationSteps
           step == t.step + 1
           current == Min(t.current + increment, t.greenBalance)
       IN  IF step >= AnimationSteps
           THEN /\ displayedGreen' = t.greenBalance
                /\ timers' = ClearInterval(timers, t.id)
           ELSE /\ displayedGreen' = ToFixed1(current)
                /\ timers' = (timers \ {t}) \cup
                                 {[t EXCEPT !.step = step,
                                            !.current = current]}
    /\ UNCHANGED <<mounted, wallet, walletChanges, lamports, balanceFor,
                   listener, pendingFetches, solBalance, greenFor,
                   greenBalance, animatedFor, timerSeq, geoUseMock,
                   geoAvailable, permission, geoPc, geoPromise, geoValue,
                   geoWarned, geoCalls, pageVars, scriptVars, chainVars>>

\* connection.getBalance(publicKey) of fetch f returns: setSolBalance.  A
\* state update of a component that is gone does nothing.
FetchReturns(f) ==
    /\ f \in pendingFetches
    /\ pendingFetches' = pendingFetches \ {f}
    /\ solBalance' = IF mounted THEN Stored(lamports[f.key], f.key)
                     ELSE solBalance
    /\ UNCHANGED <<mounted, wallet, walletChanges, lamports, balanceFor,
                   listener, greenFor, greenBalance, animatedFor, timers,
                   timerSeq, displayedGreen, geoUseMock, geoAvailable,
                   permission, geoPc, geoPromise, geoValue, geoWarned,
                   geoCalls, pageVars, scriptVars, chainVars>>

\* connection.getBalance(publicKey) of fetch f throws: setSolBalance(0).
FetchFails(f) ==
    /\ f \in pendingFetches
    /\ pendingFetches' = pendingFetches \ {f}
    /\ solBalance' = IF mounted THEN Stored(0, f.key) ELSE solBalance
    /\ UNCHANGED <<mounted, wallet, walletChanges, lamports, balanceFor,
                   listener, greenFor, greenBalance, animatedFor, timers,
                   timerSeq, displayedGreen, geoUseMock, geoAvailable,
                   permission, geoPc, geoPromise, geoValue, geoWarned,
                   geoCalls, pageVars, scriptVars, chainVars>>

\* The balance of account k changes on the cluster; the listener on k, if
\* there is one, is called with the account.
AccountChanges(k) ==
    /\ lamports' = [lamports EXCEPT ![k] = IF @ = LAMPORTS_PER_SOL
                                           THEN 2 * LAMPORTS_PER_SOL
                                           ELSE LAMPORTS_PER_SOL]
    /\ solBalance' = IF listener = k THEN Stored(lamports'[k], k)
                     ELSE solBalance
    /\ UNCHANGED <<mounted, wallet, walletChanges, balanceFor, listener,
                   pendingFetches, greenFor, greenBalance, animatedFor,
                   timers, timerSeq, displayedGreen, geoUseMock,
                   geoAvailable, permission, geoPc, geoPromise, geoValue,
                   geoWarned, geoCalls, pageVars, scriptVars, chainVars>>

\* The page is left: the cleanups of the effects that have one run.
Unmount ==
    /\ mounted
    /\ mounted' = FALSE
    /\ listener' = "none"
    /\ timers' = AnimationCleanup(timers, timerSeq)
    /\ UNCHANGED <<wallet, walletChanges, lamports, balanceFor,
                   pendingFetches, solBalance, greenFor, greenBalance,
                   animatedFor, timerSeq, displayedGreen, geoUseMock,
                   geoAvailable, permission, geoPc, geoPromise, geoValue,
                   geoWarned, geoCalls, pageVars, scriptVars, chainVars>>

\* The counter: the wallet, the effects and the interval.
NextCounter ==
    \/ \E k \in Keys : Connect(k)
    \/ Disconnect
    \/ \E k \in Keys : SwitchAccount(k)
    \/ FlushEffects
    \/ \E t \in timers : Tick(t)
    \/ Unmount

\* The SOL balance: the wallet, the effects, the RPC and the cluster.
NextBalance ==
    \/ \E k \in Keys : Connect(k)
    \/ Disconnect
    \/ \E k \in Keys : SwitchAccount(k)
    \/ FlushEffects
    \/ \E f \in pendingFetches : FetchReturns(f)
    \/ \E f \in pendingFetches : FetchFails(f)
    \/ \E k \in Keys : AccountChanges(k)
    \/ Unmount

\* ------------------------------------------------------------------------
\* The on-chain program (contracts): initialize and verify_and_mint, with
\* the ProofRecord PDA, seeds [b"proof", commitment], as the replay ledger.
\* ------------------------------------------------------------------------

\* Keys of the setups a deployment may have been made from.
SetupKeys == 1..MaxRuns

\* What farmers prove: the same field and wallet under two nonces, and a
\* status that is not the compliant one.
FarmerInputs ==
    {[complianceStatusHash   |-> s,
      gpsLatitude            |-> 286139,
      gpsLongitude           |-> 772090,
      farmerWalletHash       |-> <<"5">>,
      nonce                  |-> n,
      expectedComplianceHash |-> ExpectedHash] :
        s \in HashVals, n \in {<<"1">>, <<"2">>}}

\* 1. Authority calls initialize: creates the ProgramState PDA and the
\* $GREEN mint.  The verification key is fixed for the deployment.
Initialize(k) ==
    /\ ~initialized
    /\ initialized' = TRUE
    /\ programVk' = Groth16Setup(k).vk
    /\ UNCHANGED <<proofRecords, minted, farmerPc, submission, outcome,
                   redeemLog, localResult, scriptVars,
                   frontendVars>>

\* The farmer's prover: a proof under the proving key of setup k, with the
\* commitment read off the public signals.
FarmerProve(f, in, k) ==
    /\ farmerPc[f] = "idle"
    /\ CircuitProve(in, Groth16Setup(k).zkey, f).status = "ok"
    /\ LET r == CircuitProve(in, Groth16Setup(k).zkey, f)
       IN  submission' = [submission EXCEPT ![f] =
               [kind |-> "submission", input |-> in, proof |-> r.proof,
                commitment |-> r.public[1], expected |-> r.public[2]]]
    /\ farmerPc' = [farmerPc EXCEPT ![f] = "proved"]
    /\ UNCHANGED <<initialized, programVk, proofRecords, minted, outcome,
                   redeemLog, localResult, scriptVars,
                   frontendVars>>

\* A farmer submits another farmer's commitment with the own proof.
ForgeCommitment(f, g) ==
    /\ farmerPc[f] = "proved"
    /\ farmerPc[g] # "idle"
    /\ submission[g].commitment # submission[f].commitment
    /\ submission' = [submission EXCEPT
                         ![f].commitment = submission[g].commitment]
    /\ localResult' = [localResult EXCEPT ![f] = "none"]
    /\ UNCHANGED <<initialized, programVk, proofRecords, minted, farmerPc,
                   outcome, redeemLog, scriptVars,
                   frontendVars>>

\* A farmer submits well-formed filler (pi_a, pi_b, pi_c of random bytes)
\* in place of the proof.
ForgeProof(f) ==
    /\ farmerPc[f] = "proved"
    /\ submission[f].proof # MockProof(f)
    /\ submission' = [submission EXCEPT ![f].proof = MockProof(f)]
    /\ localResult' = [localResult EXCEPT ![f] = "none"]
    /\ UNCHANGED <<initialized, programVk, proofRecords, minted, farmerPc,
                   outcome, redeemLog, scriptVars,
                   frontendVars>>

\* Fault: only the shape of the proof is looked at.
OnChainVerifyStructureOnly(vk, sub) == sub.proof.kind \in {"groth16", "mock"}
\* "Program verifies proof": the verifier of the proof system against the
\* deployment's verification key, the commitment and the public input.
OnChainVerify(vk, sub) ==
    Groth16Verify(vk, <<sub.commitment, sub.expected>>, sub.proof)

\* Fault: the record is not written.
RedeemWithoutRecord(records, c) ==
    [result  |-> IF c \in records THEN "AlreadyRedeemed" ELSE "Ok",
     records |-> records]

\* Fault: the record is written without looking for an existing one.
RedeemWithoutCheck(records, c) ==
    [result |-> "Ok", records |-> records \cup {c}]

\* Fault: the new record takes the place of the old ones.
RedeemReplacingRecords(records, c) ==
    [result  |-> IF c \in records THEN "AlreadyRedeemed" ELSE "Ok",
     records |-> {c}]
\* "Creates ProofRecord PDA (replay protection)": the account is created
\* if and only if none exists at the commitment's address.
Redeem(records, c) ==
    [result  |-> IF c \in records THEN "AlreadyRedeemed" ELSE "Ok",
     records |-> records \cup {c}]

\* Fault: the reward is minted whatever the ledger answered.
MintAmountUnconditional(res) == IF res = "Ok" THEN 1 ELSE 1
\* "Mints 1 $GREEN to farmer's ATA"
MintAmount(res) == IF res = "Ok" THEN 1 ELSE 0

\* 2. Farmer calls verify_and_mint.  One transaction: it is applied as a
\* whole or not at all, and transactions writing the same account are
\* serialized.
VerifyAndMint(f) ==
    /\ initialized
    /\ farmerPc[f] = "proved"
    /\ farmerPc' = [farmerPc EXCEPT ![f] = "done"]
    /\ IF ~OnChainVerify(programVk, submission[f])
       THEN /\ outcome' = [outcome EXCEPT ![f] = "InvalidProof"]
            /\ UNCHANGED <<proofRecords, minted, redeemLog>>
       ELSE LET r == Redeem(proofRecords, submission[f].commitment)
            IN  /\ outcome' = [outcome EXCEPT ![f] = r.result]
                /\ proofRecords' = r.records
                /\ minted' = minted + MintAmount(r.result)
                /\ redeemLog' = Append(redeemLog,
                       [commitment |-> submission[f].commitment,
                        result |-> r.result])
    /\ UNCHANGED <<initialized, programVk, submission, localResult,
                   scriptVars,
                   frontendVars>>

\* Fault: a verifier that marks the commitment it accepts as spent.
LocalVerifySpending(f) ==
    /\ initialized
    /\ farmerPc[f] \in {"proved", "done"}
    /\ localResult' = [localResult EXCEPT ![f] =
           IF OnChainVerify(programVk, submission[f]) THEN "valid"
           ELSE "invalid"]
    /\ proofRecords' =
           IF OnChainVerify(programVk, submission[f])
           THEN proofRecords \cup {submission[f].commitment}
           ELSE proofRecords
    /\ UNCHANGED <<initialized, programVk, minted, farmerPc, submission,
                   outcome, redeemLog, scriptVars,
                   frontendVars>>
\* The farmer runs the verifier on what the farmer holds, before or after
\* submitting it: snarkjs groth16 verify with the public verification key.
LocalVerify(f) ==
    /\ initialized
    /\ farmerPc[f] \in {"proved", "done"}
    /\ localResult' = [localResult EXCEPT ![f] =
           IF OnChainVerify(programVk, submission[f]) THEN "valid"
           ELSE "invalid"]
    /\ UNCHANGED <<initialized, programVk, proofRecords, minted, farmerPc,
                   submission, outcome, redeemLog, scriptVars,
                   frontendVars>>

\* The farmer throws away a proof that was not submitted, to prove again.
DiscardProof(f) ==
    /\ farmerPc[f] = "proved"
    /\ farmerPc' = [farmerPc EXCEPT ![f] = "idle"]
    /\ submission' = [submission EXCEPT ![f] = NoArtifact]
    /\ localResult' = [localResult EXCEPT ![f] = "none"]
    /\ UNCHANGED <<initialized, programVk, proofRecords, minted, outcome,
                   redeemLog, scriptVars,
                   frontendVars>>

InitChain ==
    /\ initialized = FALSE
    /\ programVk = NoFile
    /\ proofRecords = {}
    /\ minted = 0
    /\ farmerPc = [f \in 1..NumFarmers |-> "idle"]
    /\ submission = [f \in 1..NumFarmers |-> NoArtifact]
    /\ outcome = [f \in 1..NumFarmers |-> "none"]
    /\ redeemLog = <<>>
    /\ localResult = [f \in 1..NumFarmers |-> "none"]

Init == InitScript /\ InitChain /\ InitFrontend

Next ==
    \/ \E in \in Inputs, mock \in BOOLEAN : StartScript(in, mock)
    \/ Compile
    \/ TrustedSetup
    \/ GenerateProof
    \/ VerifyProof
    \/ ExportVerifier
    \/ MockProve
    \/ MockVerify
    \/ \E p \in PresentablePublics : SubstitutePublic(p)
    \/ SubstituteKey
    \/ SubstituteProof

Spec == Init /\ [][Next]_vars

NextLedger ==
    \/ \E k \in SetupKeys : Initialize(k)
    \/ \E f \in 1..NumFarmers, in \in FarmerInputs, k \in SetupKeys :
           FarmerProve(f, in, k)
    \/ \E f, g \in 1..NumFarmers : ForgeCommitment(f, g)
    \/ \E f \in 1..NumFarmers : ForgeProof(f)
    \/ \E f \in 1..NumFarmers : VerifyAndMint(f)

SpecLedger == Init /\ [][NextLedger]_vars

\* The program with farmers who verify, discard and retry what their own
\* prover gave them.
NextRetry ==
    \/ \E k \in SetupKeys : Initialize(k)
    \/ \E f \in 1..NumFarmers, in \in FarmerInputs, k \in SetupKeys :
           FarmerProve(f, in, k)
    \/ \E f \in 1..NumFarmers : VerifyAndMint(f)
    \/ \E f \in 1..NumFarmers : LocalVerify(f)
    \/ \E f \in 1..NumFarmers : DiscardProof(f)

SpecRetry == Init /\ [][NextRetry]_vars

\* Calls of getCurrentPosition in every configuration of the frontend.
InitGeo ==
    /\ InitScript
    /\ InitChain
    /\ InitGeoFrontend

SpecGeo == InitGeo /\ [][NextGeo]_vars

\* Timers fire and the browser ends a request whose permission is
\* decided; nothing makes the user answer the prompt.
FairSpecGeo ==
    InitGeo /\ [][NextGeo]_vars /\ WF_vars(DelayElapsed)
        /\ WF_vars(BrowserResponds)

\* The page in every configuration of the frontend.
SpecPage == InitGeo /\ [][NextPage]_vars

\* handleCapture goes on once the promise it awaits has settled.
FairSpecPage == InitGeo /\ [][NextPage]_vars /\ WF_vars(CaptureSettled)

\* GreenBalance mounts with no wallet connected, in a build with either
\* value of USE_MOCK.
InitWallet ==
    /\ InitScript
    /\ InitChain
    /\ geoUseMock \in BOOLEAN
    /\ geoAvailable = TRUE
    /\ permission = "prompt"
    /\ geoPc = "idle"
    /\ geoPromise = "none"
    /\ geoValue = NoPosition
    /\ geoWarned = "none"
    /\ geoCalls = 0
    /\ InitPage
    /\ InitBalance

SpecCounter == InitWallet /\ [][NextCounter]_vars

SpecBalance == InitWallet /\ [][NextBalance]_vars

\* ------------------------------------------------------------------------
\* One run of each prover over a grid of witnesses: the circuit and the
\* mock as functions of input.json.
\* ------------------------------------------------------------------------

\* Latitudes times 10000: around both ends of [-90, 90], 89.9999, New
\* Delhi, the equator and 91 degrees.
GridLat ==
    {0 - 900001, 0 - 900000, 0 - 1, 0, 286139, 899999, 900000, 900001,
     910000}

\* Longitudes times 10000: around both ends of [-180, 180], New Delhi and
\* the prime meridian.
GridLng ==
    {0 - 1800001, 0 - 1800000, 0, 772090, 1799999, 1800000, 1800001}

\* The compliant status as every verifier writes it, the same number
\* written with a leading zero, and a status that is not the compliant one.
GridStatus == {<<"7">>, <<"0", "7">>, <<"8">>}

GridInputs ==
    {[complianceStatusHash   |-> s,
      gpsLatitude            |-> lat,
      gpsLongitude           |-> lng,
      farmerWalletHash       |-> <<"5">>,
      nonce                  |-> <<"1">>,
      expectedComplianceHash |-> ExpectedHash] :
        s \in GridStatus, lat \in GridLat, lng \in GridLng}

\* The first run of the script has started on one input of the grid, with
\* or without circom installed.
InitProvers ==
    /\ run = 1
    /\ USE_MOCK \in BOOLEAN
    /\ pc = IF USE_MOCK THEN "mock" ELSE "compile"
    /\ input \in GridInputs
    /\ zkey = NoFile
    /\ vkFile = NoFile
    /\ proofFile = NoFile
    /\ publicFile = NoFile
    /\ commitment = NoFile
    /\ verified = "none"
    /\ error = "none"
    /\ produced = NoArtifact
    /\ prev = NoArtifact
    /\ stdout = <<>>
    /\ InitChain
    /\ InitFrontend

NextProvers ==
    \/ Compile
    \/ TrustedSetup
    \/ GenerateProof
    \/ VerifyProof
    \/ ExportVerifier
    \/ MockProve
    \/ MockVerify

SpecProvers == InitProvers /\ [][NextProvers]_vars

\* ------------------------------------------------------------------------
\* Properties
\* ------------------------------------------------------------------------

\* The prover of the current run has finished, with a proof or an error.
ProverFinished == pc \in {"verify", "export", "done", "mock_verify", "failed"}

\* The prover of the current run was given an input.
HasInput == input # NoInput

\* The proof and the public signals presented to the verifier were issued
\* together by a prover.
PresentedPairIssued ==
    \E a \in {produced, prev} :
        a # NoArtifact /\ a.proof = proofFile /\ a.public = publicFile

\* The proof presented to the verifier was issued under the setup whose
\* verification key is presented.
PresentedKeyMatches ==
    \E a \in {produced, prev} :
        a # NoArtifact /\ a.proof = proofFile /\ a.vk = vkFile

\* The verifier is given exactly what the prover of this run wrote.
Untouched ==
    /\ produced # NoArtifact
    /\ proofFile = produced.proof
    /\ publicFile = produced.public
    /\ vkFile = produced.vk

\* Both coordinates lie in the ranges the statement intends: latitude in
\* [-90, 90] and longitude in [-180, 180] degrees, times 10000.
InRange(in) ==
    /\ 0 - 900000 <= in.gpsLatitude /\ in.gpsLatitude <= 900000
    /\ 0 - 1800000 <= in.gpsLongitude /\ in.gpsLongitude <= 1800000

\* The five private values of an input.
WitnessOf(in) ==
    <<in.complianceStatusHash, in.gpsLatitude, in.gpsLongitude,
      in.farmerWalletHash, in.nonce>>

\* C1: each commitment is redeemed successfully at most once: the first
\* redeem of a commitment returns Ok and every later redeem of the same
\* commitment returns AlreadyRedeemed.
C1_RedeemedAtMostOnce ==
    \A i \in 1..Len(redeemLog) :
        redeemLog[i].result =
            IF \E j \in 1..(i - 1) :
                   redeemLog[j].commitment = redeemLog[i].commitment
            THEN "AlreadyRedeemed"
            ELSE "Ok"

\* The same commitment was redeemed twice in a row: Ok, then AlreadyRedeemed.
C1_Witness ==
    /\ Len(redeemLog) >= 2
    /\ redeemLog[1].commitment = redeemLog[2].commitment
    /\ redeemLog[1].result = "Ok"
    /\ redeemLog[2].result = "AlreadyRedeemed"

\* The farmers whose transaction carried a valid proof for commitment c.
Redeemers(c) ==
    {f \in 1..NumFarmers :
        /\ farmerPc[f] = "done"
        /\ outcome[f] \in {"Ok", "AlreadyRedeemed"}
        /\ submission[f].commitment = c}

\* C2: of the concurrent redemption attempts for one commitment, under
\* every interleaving, exactly one returns Ok and the others return
\* AlreadyRedeemed; two successes are never reached.
C2_ConcurrentRedeemOneSuccess ==
    \A f \in 1..NumFarmers :
        (farmerPc[f] = "done" /\ outcome[f] \in {"Ok", "AlreadyRedeemed"})
            => Cardinality({g \in Redeemers(submission[f].commitment) :
                               outcome[g] = "Ok"}) = 1

\* Two farmers held a proof for the same commitment at the same time; the
\* second farmer's transaction went first.
C2_Witness ==
    /\ farmerPc[1] = "done" /\ farmerPc[2] = "done"
    /\ submission[1].commitment = submission[2].commitment
    /\ outcome[1] = "AlreadyRedeemed"
    /\ outcome[2] = "Ok"

\* C3: a witness whose complianceStatusHash differs from
\* expectedComplianceHash makes the prover fail with a constraint
\* violation, in the circuit and in the mock prover; no proof is produced
\* for it and none verifies.
C3_StatusMismatchNeverProves ==
    (HasInput /\ input.complianceStatusHash # input.expectedComplianceHash)
        => /\ produced = NoArtifact
           /\ verified # "valid"
           /\ ProverFinished => (pc = "failed" /\ error # "none")
           /\ (ProverFinished /\ (USE_MOCK \/ InputReadable(input)))
                  => error = "ConstraintViolation"

\* The circuit's prover has rejected a witness that is in range and differs
\* in the status only.
C3_Witness ==
    /\ HasInput
    /\ ~USE_MOCK
    /\ pc = "failed"
    /\ error = "ConstraintViolation"
    /\ InputReadable(input)
    /\ InRange(input)
    /\ input.complianceStatusHash # input.expectedComplianceHash

\* C4: a witness whose latitude lies outside [-900000, 900000] or whose
\* longitude lies outside [-1800000, 1800000] fails the range comparators:
\* the circuit's prover produces no proof for it.
C4_OutOfRangeUnsatisfiable ==
    (HasInput /\ ~USE_MOCK /\ ~InRange(input)) => produced = NoArtifact

\* C5 as claimed: whenever the verifier accepts, the public signals
\* presented are those the presented proof was generated for.
C5_AcceptedOnlyForIssuedPublic == verified = "valid" => PresentedPairIssued

\* C5 as amended: whenever the Groth16 verifier (snarkjs groth16 verify)
\* accepts, the public signals presented are those the presented proof was
\* generated for.
C5_Groth16AcceptedOnlyForIssuedPublic ==
    (~USE_MOCK /\ verified = "valid") => PresentedPairIssued

\* The Groth16 verifier has rejected this run's proof presented with other
\* public signals under this run's verification key.
C5_Witness ==
    /\ ~USE_MOCK
    /\ verified = "invalid"
    /\ produced # NoArtifact
    /\ proofFile = produced.proof
    /\ vkFile = produced.vk
    /\ publicFile # produced.public

\* C6: completeness.  For a witness with matching status and both
\* coordinates in range the prover succeeds, and the verifier accepts what
\* the prover wrote under the verification key of the same run.
C6_Completeness ==
    (/\ HasInput
     /\ input.complianceStatusHash = input.expectedComplianceHash
     /\ InRange(input)
     /\ (USE_MOCK \/ InputReadable(input)))
        => /\ ProverFinished => produced # NoArtifact
           /\ (verified # "none" /\ Untouched) => verified = "valid"

\* The Groth16 verifier has accepted the proof of a witness at the north
\* pole and the antimeridian.
C6_Witness ==
    /\ HasInput
    /\ ~USE_MOCK
    /\ input.gpsLatitude = 900000
    /\ input.gpsLongitude = 1800000
    /\ Untouched
    /\ verified = "valid"

\* The farmers whose transaction was applied with result Ok.
Paid == {f \in 1..NumFarmers : outcome[f] = "Ok"}

C8_CommitmentIsHashOfWitness ==
    /\ produced # NoArtifact =>
           produced.public[1] =
               IF produced.mock
               THEN [hash |-> "sha256",
                     preimage |->
                         produced.input.complianceStatusHash \o <<"|">>
                         \o NumberToString(produced.input.gpsLatitude)
                         \o <<"|">>
                         \o NumberToString(produced.input.gpsLongitude)
                         \o <<"|">>
                         \o produced.input.farmerWalletHash \o <<"|">>
                         \o produced.input.nonce]
               ELSE [hash |-> "poseidon",
                     preimage |->
                         <<StringToField(produced.input.complianceStatusHash),
                           ToField(produced.input.gpsLatitude),
                           ToField(produced.input.gpsLongitude),
                           StringToField(produced.input.farmerWalletHash),
                           StringToField(produced.input.nonce)>>]
    /\ (/\ produced # NoArtifact
        /\ ~USE_MOCK
        /\ verified = "valid"
        /\ proofFile = produced.proof)
           => publicFile[1] = produced.public[1]

\* The circuit's prover has published the commitment of a witness with a
\* negative latitude and longitude, and the verifier has accepted it.
C8_Witness ==
    /\ produced # NoArtifact
    /\ ~produced.mock
    /\ produced.input.gpsLatitude < 0
    /\ produced.input.gpsLongitude < 0
    /\ proofFile = produced.proof
    /\ verified = "valid"

\* C9: two witnesses that differ in any of the five fields never get the
\* same commitment from the same prover: the combination of the five
\* fields into the hash preimage is injective.
C9_DistinctWitnessesDistinctCommitments ==
    (/\ produced # NoArtifact
     /\ prev # NoArtifact
     /\ produced.mock = prev.mock
     /\ WitnessOf(produced.input) # WitnessOf(prev.input))
        => produced.public[1] # prev.public[1]

\* C10 as claimed: whenever the verifier accepts, the verification key
\* presented is the one of the setup the presented proof was generated
\* under.
C10_AcceptedOnlyUnderMatchingKey == verified = "valid" => PresentedKeyMatches

\* C10 as amended: whenever the Groth16 verifier (snarkjs groth16 verify)
\* accepts, the verification key presented is the one of the setup the
\* presented proof was generated under.
C10_Groth16AcceptedOnlyUnderMatchingKey ==
    (~USE_MOCK /\ verified = "valid") => PresentedKeyMatches

\* The Groth16 verifier has rejected this run's proof and public signals
\* under the verification key of an earlier setup.
C10_Witness ==
    /\ ~USE_MOCK
    /\ verified = "invalid"
    /\ produced # NoArtifact
    /\ proofFile = produced.proof
    /\ publicFile = produced.public
    /\ vkFile.kind = "groth16"
    /\ vkFile # produced.vk

\* C11: when the prover rejects a witness with a constraint violation, no
\* proof artifact is produced: proof.json, public.json and
\* verification_key.json are after the call exactly what they were before.
C11_RejectionLeavesArtifacts ==
    [][(/\ pc \in {"prove", "mock"}
        /\ pc' = "failed"
        /\ error' = "ConstraintViolation")
          => /\ proofFile' = proofFile
             /\ publicFile' = publicFile
             /\ vkFile' = vkFile
             /\ produced' = NoArtifact]_vars

\* The mock prover has rejected a witness while build/ held the three files
\* of an earlier run, and they are still the files of that run.
C11_Witness ==
    /\ USE_MOCK
    /\ pc = "failed"
    /\ error = "ConstraintViolation"
    /\ produced = NoArtifact
    /\ prev # NoArtifact
    /\ proofFile = prev.proof
    /\ publicFile = prev.public
    /\ vkFile = prev.vk

\* C12: every witness with matching status hash, latitude in
\* [-900000, 900000] and longitude in [-1800000, 1800000], both bounds
\* included, satisfies both range comparators and is proved by the circuit;
\* the comparators' constants 1800001 and 3600001 fit in the declared 21
\* and 22 bits.
C12_InRangeSatisfiesComparators ==
    /\ LatBound < Pow2(LatBits)
    /\ LngBound < Pow2(LngBits)
    /\ (HasInput /\ InRange(input))
           => /\ LatCheck(Signals(input))
              /\ LngCheck(Signals(input))
    /\ (/\ HasInput
        /\ ~USE_MOCK
        /\ InRange(input)
        /\ StatusCheck(Signals(input))
        /\ pc \in {"verify", "export", "done", "failed"})
           => produced # NoArtifact

\* The circuit has proved a witness at latitude 89.9999 on the
\* antimeridian, and the verifier has accepted the proof.
C12_Witness ==
    /\ ~USE_MOCK
    /\ HasInput
    /\ input.gpsLatitude = 899999
    /\ input.gpsLongitude = 0 - 1800000
    /\ produced # NoArtifact
    /\ verified = "valid"

\* C13: the ledger is append-only.  A commitment that is Redeemed stays
\* Redeemed in every later state, no step removes a replay record, and a
\* step adds at most the record of the one commitment whose redemption
\* returned Ok: Unseen -> Redeemed is the only transition of a commitment.
C13_LedgerAppendOnly ==
    [][/\ proofRecords \subseteq proofRecords'
       /\ \A c \in proofRecords' \ proofRecords :
              /\ proofRecords' = proofRecords \cup {c}
              /\ Len(redeemLog') = Len(redeemLog) + 1
              /\ redeemLog'[Len(redeemLog')] =
                     [commitment |-> c, result |-> "Ok"]]_vars

\* Two commitments are Redeemed: the record of the first was still there
\* when the second was added.
C13_Witness ==
    /\ Len(redeemLog) = 2
    /\ redeemLog[1].result = "Ok"
    /\ redeemLog[2].result = "Ok"
    /\ proofRecords = {redeemLog[1].commitment, redeemLog[2].commitment}
    /\ Cardinality(proofRecords) = 2

\* The redemptions that returned Ok.
Successes == {i \in 1..Len(redeemLog) : redeemLog[i].result = "Ok"}

\* C14: each successful verify_and_mint mints exactly 1 $GREEN and a
\* rejected one mints nothing: in every state the total minted is the
\* number of commitments recorded in the ledger and the number of
\* redemptions that returned Ok, one for each recorded commitment.
C14_MintedEqualsRecords ==
    /\ minted = Cardinality(proofRecords)
    /\ minted = Cardinality(Successes)
    /\ \A c \in proofRecords :
           Cardinality({i \in Successes : redeemLog[i].commitment = c}) = 1

\* Every farmer's transaction is applied: one was paid and one, for the
\* same commitment, was rejected by the ledger; 1 $GREEN is minted.
C14_Witness ==
    /\ minted = 1
    /\ \E f, g \in 1..NumFarmers :
           /\ outcome[f] = "Ok"
           /\ outcome[g] = "AlreadyRedeemed"
    /\ \A f \in 1..NumFarmers : farmerPc[f] = "done"

\* The private values of an input as they would be written in a file.
PrivateStrings(in) ==
    {NumberToString(in.gpsLatitude), NumberToString(in.gpsLongitude),
     in.farmerWalletHash, in.nonce}

\* Two inputs differ at most in coordinates, wallet hash and nonce.
SameStatement(a, b) ==
    /\ a.complianceStatusHash = b.complianceStatusHash
    /\ a.expectedComplianceHash = b.expectedComplianceHash

\* C15: what a prover hands to the verifier exposes only the commitment
\* and the expected status hash.  The public signals are the hash value
\* and the expected status hash, in this order and nothing else; no
\* coordinate, wallet hash or nonce is among them; the proof holds none of
\* them either; and for two witnesses that differ only in coordinates,
\* wallet hash or nonce the public signals differ in the commitment only.
C15_PublicSignalsExposeOnlyCommitment ==
    /\ produced # NoArtifact
           => /\ Len(produced.public) = 2
              /\ produced.public[1].hash \in {"poseidon", "sha256"}
              /\ ParseNat(produced.public[2]) =
                     ParseNat(produced.input.expectedComplianceHash)
              /\ produced.public[2] \notin PrivateStrings(produced.input)
              /\ DOMAIN produced.proof \subseteq
                     {"kind", "key", "public", "rand"}
              /\ produced.mock => produced.proof = MockProof(run)
              /\ ~produced.mock => produced.proof.public = produced.public
    /\ (/\ produced # NoArtifact
        /\ prev # NoArtifact
        /\ produced.mock = prev.mock
        /\ SameStatement(produced.input, prev.input))
           => /\ Len(produced.public) = Len(prev.public)
              /\ \A i \in 2..Len(produced.public) :
                     produced.public[i] = prev.public[i]

\* The circuit has proved two witnesses that differ in the coordinates
\* only: the public signals differ in the commitment and agree in the
\* expected status hash.
C15_Witness ==
    /\ produced # NoArtifact
    /\ prev # NoArtifact
    /\ ~produced.mock
    /\ ~prev.mock
    /\ SameStatement(produced.input, prev.input)
    /\ produced.input.farmerWalletHash = prev.input.farmerWalletHash
    /\ produced.input.nonce = prev.input.nonce
    /\ produced.input.gpsLatitude # prev.input.gpsLatitude
    /\ produced.public[1] # prev.public[1]
    /\ produced.public[2] = prev.public[2]

\* C16: a prove invocation leaves the verification key unchanged: in no
\* step of a prover, of the circuit or the mock, does
\* verification_key.json change.
C16_ProveLeavesKeyUnchanged ==
    [][(pc \in {"prove", "mock"}) => (vkFile' = vkFile)]_vars

\* The farmers who hold a proof their prover made of the witness of
\* farmer f.
Provers(f) ==
    {g \in 1..NumFarmers :
        /\ farmerPc[f] # "idle"
        /\ farmerPc[g] # "idle"
        /\ submission[g].input = submission[f].input
        /\ submission[g].proof.kind = "groth16"}

\* Those of them who submit it with the commitment it was made for.
SameWitness(f) ==
    {g \in 1..NumFarmers :
        /\ farmerPc[f] # "idle"
        /\ farmerPc[g] # "idle"
        /\ submission[g].input = submission[f].input
        /\ submission[g].proof.kind = "groth16"
        /\ submission[g].commitment = submission[g].proof.public[1]}

\* C17: proving an identical witness (same nonce) again yields the same
\* commitment, whatever randomness the proofs contain; redeeming that
\* commitment succeeds once and every further redemption of it is rejected
\* as already spent.
C17_SameWitnessSameCommitment ==
    \A f \in 1..NumFarmers :
        /\ \A g \in Provers(f) :
               f \in Provers(f)
                   => submission[g].proof.public[1] =
                          submission[f].proof.public[1]
        /\ f \in SameWitness(f)
               => /\ Cardinality({g \in SameWitness(f) :
                                     outcome[g] = "Ok"}) <= 1
                  /\ outcome[f] = "AlreadyRedeemed"
                         => \E g \in SameWitness(f) : outcome[g] = "Ok"
                  /\ ~(/\ outcome[f] = "InvalidProof"
                        /\ submission[f].proof.key = programVk.key)

\* Two proofs of one witness, different in their randomness, carry the
\* same commitment and verify under the program's key: the first
\* redemption was paid, the second rejected as already spent.
C17_Witness ==
    /\ initialized
    /\ SameWitness(1) = {1, 2}
    /\ submission[1].proof # submission[2].proof
    /\ submission[1].proof.key = programVk.key
    /\ submission[2].proof.key = programVk.key
    /\ submission[1].commitment = submission[2].commitment
    /\ outcome[1] = "Ok"
    /\ outcome[2] = "AlreadyRedeemed"
    /\ minted = 1

\* C18: the mock prover rejects exactly the witnesses the statement
\* circuit rejects: for every witness of the grid the mock emits a proof
\* if and only if the witness satisfies the status equality and both
\* range comparators of the circuit.
C18_MockRejectsWhatCircuitRejects ==
    (HasInput /\ USE_MOCK /\ pc \in {"mock_verify", "done", "failed"})
        => (produced # NoArtifact
                <=> /\ InputReadable(input)
                    /\ VerifyCompliance(Signals(input)))

\* The step is a ledger insert: a verify_and_mint that returned Ok.
LedgerInsert ==
    \E f \in 1..NumFarmers :
        /\ farmerPc[f] = "proved"
        /\ farmerPc'[f] = "done"
        /\ outcome'[f] = "Ok"
        /\ proofRecords' = proofRecords \cup {submission[f].commitment}

\* C19: verify and prove never change the replay ledger.  Only the ledger
\* insert changes the records and the amount minted, so proving,
\* verifying, discarding and retrying before the insert leave them as they
\* were; and verifying the same proof and commitment again gives the same
\* result as before, also after the commitment is spent.
C19_ProveVerifyLeaveLedger ==
    [][/\ (proofRecords' # proofRecords \/ minted' # minted)
              => LedgerInsert
       /\ \A f \in 1..NumFarmers :
              (/\ localResult[f] # "none"
               /\ localResult'[f] # "none"
               /\ submission'[f] = submission[f])
                  => localResult'[f] = localResult[f]]_vars

\* A farmer holds an unsubmitted proof that the verifier accepts, of a
\* commitment another farmer has already redeemed: verifying it did not
\* touch the ledger, which holds the one record.
C19_Witness ==
    /\ farmerPc[1] = "proved"
    /\ localResult[1] = "valid"
    /\ outcome[2] = "Ok"
    /\ localResult[2] = "valid"
    /\ submission[1].commitment = submission[2].commitment
    /\ proofRecords = {submission[2].commitment}
    /\ minted = 1

\* C20 as claimed: a call of getCurrentPosition always eventually resolves.
C20_AlwaysResolves == (geoPromise = "pending") ~> (geoPromise = "fulfilled")

\* The promise is resolved as the wrapper documents: with MOCK_GPS when
\* USE_MOCK is true, when the API is unavailable and after an error of
\* the browser, with the position of the device otherwise.
ResolvedAsDocumented ==
    /\ geoPromise # "rejected"
    /\ geoPromise = "fulfilled"
           => /\ (geoUseMock \/ geoWarned # "none") => geoValue = MOCK_GPS
              /\ (~geoUseMock /\ geoWarned = "none")
                     => (geoValue \in DevicePositions
                            /\ permission = "granted")
              /\ geoWarned = "API_UNAVAILABLE"
                     <=> (~geoUseMock /\ ~geoAvailable)
              /\ geoWarned = "PERMISSION_DENIED" => permission = "denied"
    /\ geoPromise # "fulfilled" => geoValue = NoPosition

\* C20 as amended: getCurrentPosition never rejects, and it eventually
\* resolves unless the browser's permission prompt is left unanswered:
\* with the mock GPS when USE_MOCK is true, when the Geolocation API is
\* unavailable, when permission is denied, when the position is
\* unavailable or the request times out, and with the device position
\* otherwise.
C20_ResolvesOncePermissionDecided ==
    /\ []ResolvedAsDocumented
    /\ (geoPromise = "pending" /\ (geoUseMock \/ permission # "prompt"))
           ~> (geoPromise = "fulfilled")

\* With USE_MOCK false, the second call in a browser whose user denied
\* the permission has resolved with MOCK_GPS.
C20_Witness ==
    /\ ~geoUseMock
    /\ geoAvailable
    /\ permission = "denied"
    /\ geoCalls = 2
    /\ geoPromise = "fulfilled"
    /\ geoWarned = "PERMISSION_DENIED"
    /\ geoValue = MOCK_GPS

\* What a complete run echoes with circom installed, and without.
RealOrder == <<"Step 1", "Step 2", "Step 3", "Step 4", "verified", "Step 5">>

MockOrder == <<"Mock Mode", "mock verified">>

IsPrefix(a, b) == Len(a) <= Len(b) /\ a = SubSeq(b, 1, Len(a))

Echoed(line) == \E i \in 1..Len(stdout) : stdout[i] = line

DifferInNonceOnly(a, b) ==
    /\ a.nonce # b.nonce
    /\ [a EXCEPT !.nonce = b.nonce] = b

\* C22: replay protection is keyed by the commitment only.  A witness
\* that repeats status, coordinates and identity with a different nonce
\* has a different commitment; the ledger treats it as Unseen, so its
\* redemption is rejected as already spent only if a transaction with its
\* own nonce was paid before, never because of the other nonce.
C22_FreshNonceFreshCommitment ==
    \A f \in 1..NumFarmers :
        /\ \A g \in 1..NumFarmers :
               (/\ farmerPc[f] # "idle"
                /\ farmerPc[g] # "idle"
                /\ submission[f].proof.kind = "groth16"
                /\ submission[g].proof.kind = "groth16"
                /\ DifferInNonceOnly(submission[f].input, submission[g].input))
                   => submission[f].proof.public[1] #
                          submission[g].proof.public[1]
        /\ outcome[f] = "AlreadyRedeemed"
               => \E g \in 1..NumFarmers \ {f} :
                      /\ outcome[g] = "Ok"
                      /\ submission[g].input.nonce = submission[f].input.nonce
        /\ (/\ f \in SameWitness(f)
            /\ farmerPc[f] = "done"
            /\ submission[f].proof.key = programVk.key
            /\ \A g \in 1..NumFarmers \ {f} :
                   (farmerPc[g] # "idle" /\ outcome[g] = "Ok")
                       => submission[g].input.nonce # submission[f].input.nonce)
               => outcome[f] = "Ok"

\* One wallet at one location was paid twice, once under each nonce: the
\* ledger holds the two commitments.
C22_Witness ==
    /\ farmerPc[1] = "done"
    /\ farmerPc[2] = "done"
    /\ DifferInNonceOnly(submission[1].input, submission[2].input)
    /\ outcome[1] = "Ok"
    /\ outcome[2] = "Ok"
    /\ proofRecords = {submission[1].commitment, submission[2].commitment}
    /\ minted = 2

\* The notice "ZK proof generated -> eligible for 1 $GREEN token mint" is
\* on the page.
NoticeShown ==
    /\ captureData # NoCapture
    /\ result # NoResult
    /\ result.status = "COMPLIANT"

\* C23: the notice that a ZK proof was generated and the capture is
\* eligible for 1 $GREEN is on the page only if the analysis of the
\* submitted capture returned COMPLIANT.
C23_NoticeOnlyAfterCompliantAnalysis ==
    NoticeShown => result.analysis = "COMPLIANT"

\* C24: the result CapturePreview shows was computed for the capture it
\* shows.
C24_ResultBelongsToDisplayedCapture ==
    (captureData # NoCapture /\ result # NoResult)
        => result.of = captureData.timestamp

CounterInSync == mounted /\ animatedFor = greenBalance

\* C26: at most one interval is running, and it is the one the last run
\* of the counter effect created; while it runs it has ticked fewer than
\* 30 times and displayedGreen is what its ticks computed, at most the
\* greenBalance it animates; displayedGreen does not exceed greenBalance
\* once the effect has run for it (and never in a build with USE_MOCK);
\* when no interval is left displayedGreen equals greenBalance exactly;
\* no interval survives the unmount; and between two states with a running
\* interval displayedGreen does not decrease.
C26_CounterAnimation ==
    /\ [](/\ Cardinality(timers) <= 1
          /\ \A t \in timers :
                 /\ t.id = timerSeq
                 /\ t.step < AnimationSteps
                 /\ t.current = t.step * (t.greenBalance \div AnimationSteps)
                 /\ displayedGreen <= t.greenBalance
                 /\ CounterInSync => displayedGreen = ToFixed1(t.current)
          /\ CounterInSync => displayedGreen <= greenBalance
          /\ geoUseMock => displayedGreen <= greenBalance
          /\ (CounterInSync /\ timers = {}) => displayedGreen = greenBalance
          /\ ~mounted => timers = {})
    /\ [][(timers # {} /\ timers' # {}) => displayedGreen' >= displayedGreen]_vars
    /\ [][\A t \in timers :
              (Tick(t) /\ t.step = AnimationSteps - 1)
                  => (displayedGreen' = t.greenBalance /\ timers' = {})]_vars

\* C26 as stated: while an interval is running displayedGreen does not
\* exceed greenBalance.
C26_NeverExceedsGreenBalance ==
    timers # {} => displayedGreen <= greenBalance

\* In a build without USE_MOCK a second animation has run to its end: the
\* wallet was connected, disconnected and connected again.
C26_Witness ==
    /\ ~geoUseMock
    /\ mounted
    /\ timerSeq = 2
    /\ timers = {}
    /\ animatedFor = MOCK_GREEN_BALANCE
    /\ displayedGreen = MOCK_GREEN_BALANCE

\* C27: once the SOL effect has run for the wallet of the last render,
\* solBalance is null if no wallet is connected and otherwise is null or a
\* balance read from the connected account.
C27_BalanceOfConnectedWallet ==
    (mounted /\ balanceFor = wallet)
        => IF wallet = "none" THEN solBalance = NoBalance
           ELSE solBalance = NoBalance \/ solBalance.of = wallet

====
